---- MODULE Spec2Model ----
(***************************************************************************)
(* Model of the asset rebalancer of src/src/main.ts: the compensated sum   *)
(* kahanSum, calculateAllocation, the unconstrained rebalance, the closed  *)
(* two-pass rebalanceWithoutNegativeRebalancing and the earlier iterative  *)
(* one.  Numbers are JavaScript numbers taken in exact arithmetic: a       *)
(* finite number is a reduced fraction <<n, d>> with d > 0, and the three  *)
(* IEEE values a division by zero produces are <<0, 0>> (NaN), <<1, 0>>    *)
(* (Infinity) and <<-1, 0>> (-Infinity).  Rounding and the sign of zero    *)
(* are not modelled.                                                       *)
(***************************************************************************)
EXTENDS Integers, Sequences, FiniteSets, TLC

----------------------------------------------------------------------------
(* Bounds of the model *)

\* longest asset list, and longest argument of kahanSum
MaxLen == 3
\* largest sum of the current values of the assets
MaxTotal == 4
\* allocation targets are the fractions k / TDen, k in 0 .. TDen
TDen == 2
\* sumToAdd ranges over -MaxDelta .. MaxDelta
MaxDelta == 1
\* kahanSum is applied to the halves n / 2, n in -MaxElem .. MaxElem
MaxElem == 3

----------------------------------------------------------------------------
(* JavaScript numbers in exact arithmetic *)

Abs(x) == IF x < 0 THEN -x ELSE x

Sgn(x) == IF x > 0 THEN 1 ELSE IF x < 0 THEN -1 ELSE 0

RECURSIVE GCD(_, _)
GCD(a, b) == IF b = 0 THEN a ELSE GCD(b, a % b)

\* the reduced fraction n / d, d # 0
Norm(n, d) ==
    LET g == GCD(Abs(n), Abs(d))
        s == IF d < 0 THEN -1 ELSE 1
    IN  <<(s * n) \div g, (s * d) \div g>>

NaN == <<0, 0>>

Zero == <<0, 1>>

Num(k) == <<k, 1>>

IsNaN(a) == a = NaN

IsFinite(a) == a[2] # 0

\* a + b
RAdd(a, b) ==
    IF IsNaN(a) \/ IsNaN(b) THEN NaN
    ELSE IF ~IsFinite(a) /\ ~IsFinite(b) THEN (IF a = b THEN a ELSE NaN)
    ELSE IF ~IsFinite(a) THEN a
    ELSE IF ~IsFinite(b) THEN b
    ELSE Norm(a[1] * b[2] + b[1] * a[2], a[2] * b[2])

\* -a
RNeg(a) == <<-a[1], a[2]>>

\* a - b
RSub(a, b) == RAdd(a, RNeg(b))

\* a * b
RMul(a, b) ==
    IF IsNaN(a) \/ IsNaN(b) THEN NaN
    ELSE IF ~IsFinite(a) \/ ~IsFinite(b)
         THEN (IF a[1] = 0 \/ b[1] = 0 THEN NaN ELSE <<Sgn(a[1]) * Sgn(b[1]), 0>>)
    ELSE Norm(a[1] * b[1], a[2] * b[2])

\* a / b: 0 / 0 is NaN, x / 0 is an infinity of x's sign
RDiv(a, b) ==
    IF IsNaN(a) \/ IsNaN(b) THEN NaN
    ELSE IF ~IsFinite(a) /\ ~IsFinite(b) THEN NaN
    ELSE IF ~IsFinite(a) THEN <<Sgn(a[1]) * (IF b[1] < 0 THEN -1 ELSE 1), 0>>
    ELSE IF ~IsFinite(b) THEN Zero
    ELSE IF b[1] = 0 THEN (IF a[1] = 0 THEN NaN ELSE <<Sgn(a[1]), 0>>)
    ELSE Norm(a[1] * b[2], a[2] * b[1])

\* a < b: false as soon as one side is NaN
RLt(a, b) ==
    IF IsNaN(a) \/ IsNaN(b) THEN FALSE
    ELSE IF ~IsFinite(a) /\ ~IsFinite(b) THEN a[1] < b[1]
    ELSE a[1] * b[2] < b[1] * a[2]

\* a <= b
RLe(a, b) == ~IsNaN(a) /\ ~IsNaN(b) /\ (a = b \/ RLt(a, b))

\* a > b
RGt(a, b) == RLt(b, a)

\* a >= b
RGe(a, b) == RLe(b, a)

----------------------------------------------------------------------------
(* kahanSum *)

\* the loop body with r left at t2 - s
KahanStep_NoCompensation(st, v) ==
    LET t1 == RSub(v, st.r)
        t2 == RAdd(st.s, t1)
    IN  [s |-> t2, r |-> RSub(t2, st.s)]

\* one iteration of the for loop on the element v
KahanStep(st, v) ==
    LET t1 == RSub(v, st.r)
        t2 == RAdd(st.s, t1)
    IN  [s |-> t2, r |-> RSub(RSub(t2, st.s), t1)]

RECURSIVE KahanLoop(_, _)
KahanLoop(st, rest) ==
    IF rest = << >> THEN st
    ELSE KahanLoop(KahanStep(st, Head(rest)), Tail(rest))

kahanSum(a) ==
    IF Len(a) = 0 THEN Zero
    ELSE KahanLoop([s |-> a[1], r |-> Zero], Tail(a)).s

----------------------------------------------------------------------------
(* calculateAllocation and the two closed rebalancers *)

\* calculateAllocation dividing by the number of elements
calculateAllocation_ByCount(a) ==
    LET sum == kahanSum(a)
    IN  <<sum, [i \in 1 .. Len(a) |-> RDiv(a[i], Num(Len(a)))]>>

calculateAllocation(a) ==
    LET sum == kahanSum(a)
    IN  <<sum, [i \in 1 .. Len(a) |-> RDiv(a[i], sum)]>>

\* a call that returned v
Return(v) == [threw |-> FALSE, value |-> v]

\* a call ended by a failed assert
Throw == [threw |-> TRUE, value |-> << >>]

\* rebalance that splits sumToAdd by the initial allocation instead of the target
rebalance_SplitByInitial(sumInitial, allocInitial, allocTargets, sumToAdd) ==
    IF Len(allocInitial) # Len(allocTargets) THEN Throw
    ELSE Return([i \in 1 .. Len(allocTargets) |->
                    RAdd(RMul(RSub(allocTargets[i], allocInitial[i]), sumInitial),
                         RMul(allocInitial[i], sumToAdd))])

\* rebalance that forgets the share of sumToAdd
rebalance_NoShare(sumInitial, allocInitial, allocTargets, sumToAdd) ==
    IF Len(allocInitial) # Len(allocTargets) THEN Throw
    ELSE Return([i \in 1 .. Len(allocTargets) |->
                    RMul(RSub(allocTargets[i], allocInitial[i]), sumInitial)])

\* rebalance without its assert, as it was before the assert was added: an
\* index allocInitial does not have reads undefined, and the entry is NaN
rebalance_NoAssert(sumInitial, allocInitial, allocTargets, sumToAdd) ==
    Return([i \in 1 .. Len(allocTargets) |->
               IF i > Len(allocInitial) THEN NaN
               ELSE RAdd(RMul(RSub(allocTargets[i], allocInitial[i]), sumInitial),
                         RMul(allocTargets[i], sumToAdd))])

rebalance(sumInitial, allocInitial, allocTargets, sumToAdd) ==
    IF Len(allocInitial) # Len(allocTargets) THEN Throw
    ELSE Return([i \in 1 .. Len(allocTargets) |->
                    RAdd(RMul(RSub(allocTargets[i], allocInitial[i]), sumInitial),
                         RMul(allocTargets[i], sumToAdd))])

\* a clamp that lets every diff through
Clamp_None(s, sumToAdd) == s

\* the clamp of a deposit applied whatever the sign of sumToAdd
Clamp_DepositOnly(s, sumToAdd) == IF RLt(s, Zero) THEN Zero ELSE s

\* the second map of sumFinalDividedDiffInitial
Clamp(s, sumToAdd) ==
    IF RGt(sumToAdd, Zero)
    THEN (IF RLt(s, Zero) THEN Zero ELSE s)
    ELSE (IF RGt(s, Zero) THEN Zero ELSE s)

\* the first map of sumFinalDividedDiffInitial
DiffInitial(sumsInitial, allocTargets, sumToAdd) ==
    LET ca == calculateAllocation(sumsInitial)
        sumInitial == ca[1]
        allocInitial == ca[2]
        sumFinal == RAdd(sumInitial, sumToAdd)
        sumFinalDivided == [i \in 1 .. Len(allocTargets) |-> RMul(allocTargets[i], sumFinal)]
    IN  [i \in 1 .. Len(allocTargets) |->
            RSub(sumFinalDivided[i], RMul(allocInitial[i], sumInitial))]

sumFinalDividedDiffInitial(sumsInitial, allocTargets, sumToAdd) ==
    LET d == DiffInitial(sumsInitial, allocTargets, sumToAdd)
    IN  [i \in 1 .. Len(d) |-> Clamp(d[i], sumToAdd)]

\* the closed rebalancer returning the clamped diffs as they are
rebalanceWithoutNegativeRebalancing_NoReallocation(sumsInitial, allocTargets, sumToAdd) ==
    IF Len(sumsInitial) # Len(allocTargets) THEN Throw
    ELSE IF sumToAdd = Zero THEN Return([i \in 1 .. Len(sumsInitial) |-> Zero])
    ELSE Return(sumFinalDividedDiffInitial(sumsInitial, allocTargets, sumToAdd))

rebalanceWithoutNegativeRebalancing(sumsInitial, allocTargets, sumToAdd) ==
    IF Len(sumsInitial) # Len(allocTargets) THEN Throw
    ELSE IF sumToAdd = Zero THEN Return([i \in 1 .. Len(sumsInitial) |-> Zero])
    ELSE LET diffAllocation ==
                 calculateAllocation(
                     sumFinalDividedDiffInitial(sumsInitial, allocTargets, sumToAdd))[2]
         IN  Return([i \in 1 .. Len(diffAllocation) |-> RMul(diffAllocation[i], sumToAdd)])

----------------------------------------------------------------------------
(* State *)

VARIABLES
    pc,                       \* where the run is
    arr,                      \* kahanSum: its argument
    ks,                       \* kahanSum: the locals s and r
    rest,                     \* kahanSum: the elements the for loop has not visited yet
    kahanResult,              \* kahanSum: the returned value
    sumsInitial,              \* main: the value of every input
    allocTargets,             \* main: the allocationTarget of every input
    sumToAdd,                 \* main: the sum to add
    sumInitialArg,            \* rebalance: its sumInitial argument
    sumsDivided,              \* main: what rebalance returned
    sumDividedWithoutNegativeRebalancings,  \* main: what the closed rebalancer returned
    sumDivided,               \* iterative rebalancer: the subdivision being built
    indexesRedistribution,    \* iterative rebalancer: the Set, in insertion order
    reimainingToDistribute,   \* iterative rebalancer: the local of that name
    remainingSingleRedistributedRebalancing,  \* iterative rebalancer: the share of a pass
    forQueue,                 \* iterative rebalancer: indexes the for loop has not visited yet
    sizeOfPass                \* iterative rebalancer: indexesRedistribution.size when the pass began

kahanVars == <<arr, ks, rest, kahanResult>>

inputVars == <<sumsInitial, allocTargets, sumToAdd>>

closedVars == <<sumInitialArg, sumsDivided, sumDividedWithoutNegativeRebalancings>>

iterVars == <<sumDivided, indexesRedistribution, reimainingToDistribute,
              remainingSingleRedistributedRebalancing, forQueue, sizeOfPass>>

vars == <<pc, kahanVars, inputVars, closedVars, iterVars>>

\* the sequences over S of length at most n
SeqsUpTo(S, n) == UNION {[1 .. k -> S] : k \in 0 .. n}

\* the numbers kahanSum is applied to
Reals == {Norm(n, 2) : n \in (-MaxElem) .. MaxElem}

\* the current values an asset can have
Values == {Num(k) : k \in 0 .. MaxTotal}

\* the lists of current values main is given
ValueLists == {v \in SeqsUpTo(Values, MaxLen) : RLe(kahanSum(v), Num(MaxTotal))}

\* the allocation targets an asset can have
Targets == {Norm(k, TDen) : k \in 0 .. TDen}

\* the lists of targets main is given: they allocate at most the whole
TargetLists == {t \in SeqsUpTo(Targets, MaxLen) : RLe(kahanSum(t), Num(1))}

\* the sums to add; main is also given the sum that liquidates all its assets
Deltas == {Num(k) : k \in (-MaxDelta) .. MaxDelta}

\* values of the variables a run does not use
NoKahan ==
    /\ arr = << >>
    /\ ks = [s |-> Zero, r |-> Zero]
    /\ rest = << >>
    /\ kahanResult = Zero

NoRebalance ==
    /\ sumsInitial = << >>
    /\ allocTargets = << >>
    /\ sumToAdd = Zero
    /\ sumInitialArg = Zero
    /\ sumsDivided = Throw
    /\ sumDividedWithoutNegativeRebalancings = Throw
    /\ sumDivided = << >>
    /\ indexesRedistribution = << >>
    /\ reimainingToDistribute = Zero
    /\ remainingSingleRedistributedRebalancing = Zero
    /\ forQueue = << >>
    /\ sizeOfPass = 0

----------------------------------------------------------------------------
(* kahanSum, statement by statement *)

SumInit ==
    /\ pc = "kahanSum"
    /\ arr \in SeqsUpTo(Reals, MaxLen)
    /\ ks = [s |-> Zero, r |-> Zero]
    /\ rest = << >>
    /\ kahanResult = Zero
    /\ NoRebalance

\* if (arr.length === 0) return 0; let s = arr[0]; let r = 0
KahanEnter ==
    /\ pc = "kahanSum"
    /\ IF Len(arr) = 0
       THEN /\ kahanResult' = Zero
            /\ pc' = "summed"
            /\ UNCHANGED <<ks, rest>>
       ELSE /\ ks' = [s |-> arr[1], r |-> Zero]
            /\ rest' = Tail(arr)
            /\ pc' = "kahanLoop"
            /\ UNCHANGED kahanResult
    /\ UNCHANGED <<arr, inputVars, closedVars, iterVars>>

\* one iteration of for (const v of arr.slice(1))
KahanIterate ==
    /\ pc = "kahanLoop"
    /\ rest # << >>
    /\ ks' = KahanStep(ks, Head(rest))
    /\ rest' = Tail(rest)
    /\ UNCHANGED <<pc, arr, kahanResult, inputVars, closedVars, iterVars>>

\* return s
KahanReturn ==
    /\ pc = "kahanLoop"
    /\ rest = << >>
    /\ kahanResult' = ks.s
    /\ pc' = "summed"
    /\ UNCHANGED <<arr, ks, rest, inputVars, closedVars, iterVars>>

SumNext == KahanEnter \/ KahanIterate \/ KahanReturn

SpecSum == SumInit /\ [][SumNext]_vars

----------------------------------------------------------------------------
(* main and the rebalancers *)

\* values of the locals of a rebalancer that has not been called
NotCalled ==
    /\ sumInitialArg = Zero
    /\ sumsDivided = Throw
    /\ sumDividedWithoutNegativeRebalancings = Throw
    /\ sumDivided = << >>
    /\ indexesRedistribution = << >>
    /\ reimainingToDistribute = Zero
    /\ remainingSingleRedistributedRebalancing = Zero
    /\ forQueue = << >>
    /\ sizeOfPass = 0

\* the arguments of the two closed rebalancers: main's, and those of a caller
\* that passes lists of different lengths
Init ==
    /\ pc = "main"
    /\ NoKahan
    /\ sumsInitial \in ValueLists
    /\ allocTargets \in TargetLists
    /\ sumToAdd \in Deltas \cup {RNeg(kahanSum(sumsInitial))}
    /\ NotCalled

\* main's allocInitial: every value over the sum of the values
allocInitial ==
    LET sumInitial == kahanSum(sumsInitial)
    IN  [i \in 1 .. Len(sumsInitial) |-> RDiv(sumsInitial[i], sumInitial)]

\* a call of rebalance on main's allocInitial and allocTargets
CallRebalance ==
    /\ pc = "main"
    /\ LET initial == allocInitial
       IN  \E t \in {kahanSum(sumsInitial), Num(-MaxTotal)} :
              /\ sumInitialArg' = t
              /\ sumsDivided' = rebalance(t, initial, allocTargets, sumToAdd)
    /\ pc' = "rebalanced"
    /\ UNCHANGED <<kahanVars, inputVars, sumDividedWithoutNegativeRebalancings, iterVars>>

\* the call of the closed rebalanceWithoutNegativeRebalancing
CallRebalanceWithoutNegativeRebalancing ==
    /\ pc = "main"
    /\ sumDividedWithoutNegativeRebalancings' =
           rebalanceWithoutNegativeRebalancing(sumsInitial, allocTargets, sumToAdd)
    /\ pc' = "constrained"
    /\ UNCHANGED <<kahanVars, inputVars, sumInitialArg, sumsDivided, iterVars>>

Next ==
    \/ CallRebalance
    \/ CallRebalanceWithoutNegativeRebalancing

Spec == Init /\ [][Next]_vars

----------------------------------------------------------------------------
(* The iterative rebalanceWithoutNegativeRebalancing, statement by statement *)

\* the inputs of the main that calls the iterative rebalancer: the values and
\* the targets of one list of assets
IterInit ==
    /\ pc = "main"
    /\ NoKahan
    /\ sumsInitial \in ValueLists
    /\ allocTargets \in TargetLists
    /\ Len(sumsInitial) = Len(allocTargets)
    /\ sumToAdd \in Deltas
    /\ NotCalled

\* the subdivision the initial pass computes for every index
sumToAddSuddivision ==
    LET sumInitial == kahanSum(sumsInitial)
        initial == allocInitial
    IN  [i \in 1 .. Len(allocTargets) |->
            RAdd(RMul(RSub(allocTargets[i], initial[i]), sumInitial),
                 RMul(allocTargets[i], sumToAdd))]

\* an initial pass that does not keep track of the negative subdivisions
sumNegativeRebalacings_Forgotten(sub, n) == Zero

\* the value of sumNegativeRebalacings after the first n indexes
RECURSIVE sumNegativeRebalacings(_, _)
sumNegativeRebalacings(sub, n) ==
    IF n = 0 THEN Zero
    ELSE LET before == sumNegativeRebalacings(sub, n - 1)
         IN  IF RLe(sub[n], Zero) THEN RAdd(before, sub[n]) ELSE before

\* the indexes 1 .. n in increasing order
RECURSIVE Indexes(_)
Indexes(n) == IF n = 0 THEN << >> ELSE Append(Indexes(n - 1), n)

\* the initial pass over allocTargets, and the test that guards the redistribution
IterInitialPass ==
    /\ pc = "main"
    /\ LET sub == sumToAddSuddivision
           neg == sumNegativeRebalacings(sub, Len(allocTargets))
       IN  /\ sumDivided' = [i \in 1 .. Len(allocTargets) |->
                                IF RLe(sub[i], Zero) THEN Zero ELSE sub[i]]
           /\ indexesRedistribution' =
                  SelectSeq(Indexes(Len(allocTargets)), LAMBDA i : ~RLe(sub[i], Zero))
           /\ reimainingToDistribute' = neg
           /\ pc' = IF RLt(neg, Zero) THEN "while" ELSE "returned"
    /\ UNCHANGED <<kahanVars, inputVars, closedVars,
                   remainingSingleRedistributedRebalancing, forQueue, sizeOfPass>>

\* the test of the while loop and the share of the pass it starts
IterWhile ==
    /\ pc = "while"
    /\ IF RLt(reimainingToDistribute, Zero) /\ Len(indexesRedistribution) > 0
       THEN /\ remainingSingleRedistributedRebalancing' =
                   RDiv(reimainingToDistribute, Num(Len(indexesRedistribution)))
            /\ forQueue' = indexesRedistribution
            /\ sizeOfPass' = Len(indexesRedistribution)
            /\ pc' = "for"
       ELSE /\ pc' = "returned"
            /\ UNCHANGED <<remainingSingleRedistributedRebalancing, forQueue, sizeOfPass>>
    /\ UNCHANGED <<kahanVars, inputVars, closedVars, sumDivided, indexesRedistribution,
                   reimainingToDistribute>>

\* the iteration that deletes an index only when its subdivision is < 0, so
\* that an index brought to 0 stays in the set
IterFor_KeepsZero ==
    /\ pc = "for"
    /\ forQueue # << >>
    /\ LET indexToRedistribute == Head(forQueue)
           share == remainingSingleRedistributedRebalancing
           distributeEffect == RAdd(sumDivided[indexToRedistribute], share)
           applied == RGe(distributeEffect, Zero)
           newValue == IF applied THEN distributeEffect ELSE Zero
           newRemaining ==
               IF applied THEN RSub(reimainingToDistribute, share)
               ELSE RSub(reimainingToDistribute, RSub(share, distributeEffect))
       IN  /\ sumDivided' = [sumDivided EXCEPT ![indexToRedistribute] = newValue]
           /\ reimainingToDistribute' = newRemaining
           /\ indexesRedistribution' =
                  IF RLt(newValue, Zero)
                  THEN SelectSeq(indexesRedistribution, LAMBDA i : i # indexToRedistribute)
                  ELSE indexesRedistribution
           /\ forQueue' = Tail(forQueue)
           /\ pc' = IF RGe(newRemaining, Zero) \/ Tail(forQueue) = << >>
                    THEN "while" ELSE "for"
    /\ UNCHANGED <<kahanVars, inputVars, closedVars,
                   remainingSingleRedistributedRebalancing, sizeOfPass>>

\* a for loop that applies the share also where it makes the subdivision negative
IterFor_AlwaysApplied ==
    /\ pc = "for"
    /\ forQueue # << >>
    /\ LET indexToRedistribute == Head(forQueue)
           share == remainingSingleRedistributedRebalancing
           distributeEffect == RAdd(sumDivided[indexToRedistribute], share)
           newValue == distributeEffect
           newRemaining == RSub(reimainingToDistribute, share)
       IN  /\ sumDivided' = [sumDivided EXCEPT ![indexToRedistribute] = newValue]
           /\ reimainingToDistribute' = newRemaining
           /\ indexesRedistribution' =
                  IF RLe(newValue, Zero)
                  THEN SelectSeq(indexesRedistribution, LAMBDA i : i # indexToRedistribute)
                  ELSE indexesRedistribution
           /\ forQueue' = Tail(forQueue)
           /\ pc' = IF RGe(newRemaining, Zero) \/ Tail(forQueue) = << >>
                    THEN "while" ELSE "for"
    /\ UNCHANGED <<kahanVars, inputVars, closedVars,
                   remainingSingleRedistributedRebalancing, sizeOfPass>>

\* one iteration of the for loop over indexesRedistribution
IterFor ==
    /\ pc = "for"
    /\ forQueue # << >>
    /\ LET indexToRedistribute == Head(forQueue)
           share == remainingSingleRedistributedRebalancing
           distributeEffect == RAdd(sumDivided[indexToRedistribute], share)
           applied == RGe(distributeEffect, Zero)
           newValue == IF applied THEN distributeEffect ELSE Zero
           newRemaining ==
               IF applied THEN RSub(reimainingToDistribute, share)
               ELSE RSub(reimainingToDistribute, RSub(share, distributeEffect))
       IN  /\ sumDivided' = [sumDivided EXCEPT ![indexToRedistribute] = newValue]
           /\ reimainingToDistribute' = newRemaining
           /\ indexesRedistribution' =
                  IF RLe(newValue, Zero)
                  THEN SelectSeq(indexesRedistribution, LAMBDA i : i # indexToRedistribute)
                  ELSE indexesRedistribution
           /\ forQueue' = Tail(forQueue)
           /\ pc' = IF RGe(newRemaining, Zero) \/ Tail(forQueue) = << >>
                    THEN "while" ELSE "for"
    /\ UNCHANGED <<kahanVars, inputVars, closedVars,
                   remainingSingleRedistributedRebalancing, sizeOfPass>>

IterNext ==
    \/ IterInitialPass
    \/ IterWhile
    \/ IterFor

SpecIter == IterInit /\ [][IterNext]_vars

----------------------------------------------------------------------------
(* Vocabulary of the properties *)

\* the entries of a list added from left to right
RECURSIVE PlainSum(_)
PlainSum(a) == IF Len(a) = 0 THEN Zero ELSE RAdd(PlainSum(SubSeq(a, 1, Len(a) - 1)), a[Len(a)])

SameLength == Len(sumsInitial) = Len(allocTargets)

\* the targets are fractions of the whole that add up to it
TargetsValid ==
    /\ \A i \in 1 .. Len(allocTargets) : RGe(allocTargets[i], Zero) /\ RLe(allocTargets[i], Num(1))
    /\ PlainSum(allocTargets) = Num(1)

\* the inputs the closed rebalancer is specified for
ValidInputs ==
    /\ SameLength
    /\ \A i \in 1 .. Len(sumsInitial) : RGe(sumsInitial[i], Zero)
    /\ RGt(PlainSum(sumsInitial), Zero)
    /\ TargetsValid
    /\ RGe(RAdd(PlainSum(sumsInitial), sumToAdd), Zero)

\* the diff of every asset before the clamp
Diffs == DiffInitial(sumsInitial, allocTargets, sumToAdd)

SomeDiffNegative == LET d == Diffs IN \E i \in 1 .. Len(d) : RLt(d[i], Zero)

SomeDiffPositive == LET d == Diffs IN \E i \in 1 .. Len(d) : RGt(d[i], Zero)

----------------------------------------------------------------------------
(* The closed rebalancer *)

\* C1: on valid inputs with a sum to add other than 0 the closed
\* rebalanceWithoutNegativeRebalancing returns a vector whose entries add up
\* to sumToAdd.
C1_SumsToDelta ==
    (pc = "constrained" /\ ValidInputs /\ sumToAdd # Zero)
        => /\ ~sumDividedWithoutNegativeRebalancings.threw
           /\ PlainSum(sumDividedWithoutNegativeRebalancings.value) = sumToAdd

\* a deposit on valid inputs where one asset's diff was clamped and the rest
\* was reallocated to add up to the deposit
C1_Witness ==
    /\ pc = "constrained"
    /\ ValidInputs
    /\ RGt(sumToAdd, Zero)
    /\ SomeDiffNegative
    /\ Len(sumsInitial) = 3
    /\ PlainSum(sumDividedWithoutNegativeRebalancings.value) = sumToAdd

\* C2: on valid inputs no entry of the closed rebalancer's result has the sign
\* opposite to sumToAdd, and with sumToAdd = 0 the result is the all-zero
\* vector of the input length.
C2_NoOppositeSign ==
    (pc = "constrained" /\ ValidInputs)
        => LET res == sumDividedWithoutNegativeRebalancings
           IN  /\ ~res.threw
               /\ RGt(sumToAdd, Zero) => \A i \in 1 .. Len(res.value) : RGe(res.value[i], Zero)
               /\ RLt(sumToAdd, Zero) => \A i \in 1 .. Len(res.value) : RLe(res.value[i], Zero)
               /\ sumToAdd = Zero => res.value = [i \in 1 .. Len(sumsInitial) |-> Zero]

\* a withdrawal on valid inputs where the target asks one asset to grow: its
\* entry is 0 and another asset is sold
C2_Witness ==
    /\ pc = "constrained"
    /\ ValidInputs
    /\ RLt(sumToAdd, Zero)
    /\ SomeDiffPositive
    /\ LET d == Diffs
       IN  \E i \in 1 .. Len(d) :
              /\ RGt(d[i], Zero)
              /\ sumDividedWithoutNegativeRebalancings.value[i] = Zero
    /\ \E i \in 1 .. Len(allocTargets) :
          RLt(sumDividedWithoutNegativeRebalancings.value[i], Zero)

----------------------------------------------------------------------------
(* The unconstrained rebalancer *)

\* rebalance was called on two allocations of the same length, each adding up to 1
AllocationsValid ==
    /\ SameLength
    /\ PlainSum(allocInitial) = Num(1)
    /\ PlainSum(allocTargets) = Num(1)

\* C3: when both allocations add up to 1 and sumInitial + sumToAdd > 0, every
\* asset reaches its target exactly:
\* allocInitial[i] * sumInitial + result[i] = allocTargets[i] * (sumInitial + sumToAdd).
C3_ReachesTarget ==
    (pc = "rebalanced" /\ AllocationsValid /\ RGt(RAdd(sumInitialArg, sumToAdd), Zero))
        => /\ ~sumsDivided.threw
           /\ LET initial == allocInitial
              IN  \A i \in 1 .. Len(allocTargets) :
                     RAdd(RMul(initial[i], sumInitialArg), sumsDivided.value[i])
                         = RMul(allocTargets[i], RAdd(sumInitialArg, sumToAdd))

\* a deposit on three assets, none at its target, that brings each to its target
C3_Witness ==
    /\ pc = "rebalanced"
    /\ AllocationsValid
    /\ Len(allocTargets) = 3
    /\ sumInitialArg = kahanSum(sumsInitial)
    /\ RGt(sumToAdd, Zero)
    /\ LET initial == allocInitial IN \A i \in 1 .. 3 : initial[i] # allocTargets[i]
    /\ \A i \in 1 .. 3 :
          RAdd(sumsInitial[i], sumsDivided.value[i])
              = RMul(allocTargets[i], RAdd(sumInitialArg, sumToAdd))

\* C4: when both allocations add up to 1 the entries of the result of
\* rebalance add up to sumToAdd, whatever the signs of sumToAdd and sumInitial;
\* an entry can be negative although sumToAdd > 0.
C4_SumsToDelta ==
    (pc = "rebalanced" /\ AllocationsValid)
        => /\ ~sumsDivided.threw
           /\ PlainSum(sumsDivided.value) = sumToAdd

\* a deposit whose split sells an asset (a negative entry) and still adds up
\* to the deposit
C4_Witness ==
    /\ pc = "rebalanced"
    /\ AllocationsValid
    /\ RGt(sumToAdd, Zero)
    /\ \E i \in 1 .. Len(sumsDivided.value) : RLt(sumsDivided.value[i], Zero)
    /\ PlainSum(sumsDivided.value) = sumToAdd

----------------------------------------------------------------------------
(* Degenerate inputs of the closed rebalancer *)

\* every diff is a number the clamp brought (or left) at 0
AllDiffsClampedToZero ==
    /\ Len(allocTargets) > 0
    /\ LET clamped == sumFinalDividedDiffInitial(sumsInitial, allocTargets, sumToAdd)
       IN  \A i \in 1 .. Len(allocTargets) : clamped[i] = Zero

SomeEntryNaN(v) == \E i \in 1 .. Len(v) : IsNaN(v[i])

\* C5: with sumToAdd # 0 and every diff clamped to 0, the closed rebalancer
\* fails with an error and returns no vector.
C5_ZeroBaseFails ==
    (pc = "constrained" /\ SameLength /\ sumToAdd # Zero /\ AllDiffsClampedToZero)
        => sumDividedWithoutNegativeRebalancings.threw

\* what the code does there: it returns a vector of NaN
C5_ZeroBaseReturnsNaN ==
    (pc = "constrained" /\ SameLength /\ sumToAdd # Zero /\ AllDiffsClampedToZero)
        => /\ ~sumDividedWithoutNegativeRebalancings.threw
           /\ \A i \in 1 .. Len(allocTargets) :
                 IsNaN(sumDividedWithoutNegativeRebalancings.value[i])

\* the case of C5 needs targets that do not add up to 1
C5_NotOnValidInputs ==
    (pc = "constrained" /\ ValidInputs /\ sumToAdd # Zero) => ~AllDiffsClampedToZero

\* C6: with current values adding up to 0 and sumToAdd > 0 the closed
\* rebalancer fails, because calculateAllocation fails on a total of 0.
C6_ZeroTotalFails ==
    (pc = "constrained" /\ SameLength /\ Len(sumsInitial) > 0 /\ TargetsValid
        /\ kahanSum(sumsInitial) = Zero /\ RGt(sumToAdd, Zero))
        => sumDividedWithoutNegativeRebalancings.threw

\* what the code does there: calculateAllocation returns NaN fractions and the
\* rebalancer a vector of NaN
C6_ZeroTotalReturnsNaN ==
    (pc = "constrained" /\ SameLength /\ Len(sumsInitial) > 0
        /\ kahanSum(sumsInitial) = Zero /\ RGt(sumToAdd, Zero))
        => /\ LET fractions == calculateAllocation(sumsInitial)[2]
              IN  \A i \in 1 .. Len(sumsInitial) : IsNaN(fractions[i])
           /\ ~sumDividedWithoutNegativeRebalancings.threw
           /\ \A i \in 1 .. Len(allocTargets) :
                 IsNaN(sumDividedWithoutNegativeRebalancings.value[i])

\* C7: full liquidation.  With current values >= 0 of total > 0, targets adding
\* up to 1 and sumToAdd = -total, the result is -sumsInitial[i] at every index.
C7_FullLiquidation ==
    (pc = "constrained" /\ ValidInputs /\ sumToAdd = RNeg(kahanSum(sumsInitial)))
        => sumDividedWithoutNegativeRebalancings
               = Return([i \in 1 .. Len(sumsInitial) |-> RNeg(sumsInitial[i])])

\* the liquidation of two assets of different values, one of which the target
\* wants to keep whole
C7_Witness ==
    /\ pc = "constrained"
    /\ ValidInputs
    /\ sumToAdd = RNeg(kahanSum(sumsInitial))
    /\ \E i, j \in 1 .. Len(sumsInitial) :
          /\ RGt(sumsInitial[i], sumsInitial[j])
          /\ RGt(sumsInitial[j], Zero)
          /\ allocTargets[j] = Num(1)
    /\ sumDividedWithoutNegativeRebalancings.value
           = [i \in 1 .. Len(sumsInitial) |-> RNeg(sumsInitial[i])]

----------------------------------------------------------------------------
(* Lengths *)

\* C8: rebalance and the closed rebalanceWithoutNegativeRebalancing fail on two
\* sequences of different lengths and return nothing; a call that returns,
\* returns a vector of the length of the inputs.
C8_LengthsChecked ==
    /\ pc = "rebalanced" =>
          IF SameLength
          THEN ~sumsDivided.threw /\ Len(sumsDivided.value) = Len(sumsInitial)
          ELSE sumsDivided = Throw
    /\ pc = "constrained" =>
          IF SameLength
          THEN /\ ~sumDividedWithoutNegativeRebalancings.threw
               /\ Len(sumDividedWithoutNegativeRebalancings.value) = Len(sumsInitial)
          ELSE sumDividedWithoutNegativeRebalancings = Throw

\* rebalance called with more targets than initial allocations: it failed
C8_Witness ==
    /\ pc = "rebalanced"
    /\ Len(allocTargets) > Len(sumsInitial)
    /\ Len(sumsInitial) > 0
    /\ sumsDivided.threw

----------------------------------------------------------------------------
(* kahanSum *)

\* the elements of arr the loop of kahanSum has added
Visited == SubSeq(arr, 1, Len(arr) - Len(rest))

\* arr in the order p of its indexes
Reordered(p) == [i \in 1 .. Len(arr) |-> arr[p[i]]]

\* C9: kahanSum returns 0 for the empty sequence and x for [x]; in exact
\* arithmetic the compensation r stays 0, the running sum s is the plain sum
\* of the elements added so far, and the result is the plain sum of the
\* elements in whatever order they come.
C9_KahanIsPlainSum ==
    /\ pc = "kahanLoop" => ks.r = Zero /\ ks.s = PlainSum(Visited)
    /\ pc = "summed" =>
          /\ Len(arr) = 0 => kahanResult = Zero
          /\ Len(arr) = 1 => kahanResult = arr[1]
          /\ kahanResult = PlainSum(arr)
          /\ \A p \in Permutations(1 .. Len(arr)) : kahanSum(Reordered(p)) = kahanResult

\* the sum of three different numbers, one negative and one not whole
C9_Witness ==
    /\ pc = "summed"
    /\ Len(arr) = 3
    /\ arr[1] # arr[2] /\ arr[2] # arr[3] /\ arr[1] # arr[3]
    /\ \E i \in 1 .. 3 : RLt(arr[i], Zero)
    /\ \E i \in 1 .. 3 : arr[i][2] # 1
    /\ kahanResult = PlainSum(arr)
    /\ kahanResult # Zero

----------------------------------------------------------------------------
(* The iterative rebalancer against the closed one *)

\* the inputs main gives the iterative rebalancer, with a total > 0
ValidDeposit == ValidInputs /\ RGt(sumToAdd, Zero)

\* the diffs > 0 are all the same
PositiveDiffsEqual ==
    LET d == Diffs
    IN  \A i, j \in 1 .. Len(d) : (RGt(d[i], Zero) /\ RGt(d[j], Zero)) => d[i] = d[j]

SameAsClosed ==
    Return(sumDivided) = rebalanceWithoutNegativeRebalancing(sumsInitial, allocTargets, sumToAdd)

\* C10 as stated: on every valid input with sumToAdd > 0 the iterative
\* rebalancer returns the vector the closed rebalancer returns.
C10_AlwaysSame ==
    (pc = "returned" /\ ValidDeposit) => SameAsClosed

\* C10 as amended: on a valid input with sumToAdd > 0 the iterative rebalancer
\* returns the vector the closed one returns exactly when no diff is negative
\* or all the diffs > 0 are equal.
C10_SameIffEvenSplitIsProportional ==
    (pc = "returned" /\ ValidDeposit)
        => (SameAsClosed <=> (~SomeDiffNegative \/ PositiveDiffsEqual))

\* a deposit with one diff < 0 and two equal diffs > 0: both rebalancers take
\* half of the negative diff from each of the two
C10_Witness ==
    /\ pc = "returned"
    /\ ValidDeposit
    /\ SomeDiffNegative
    /\ LET d == Diffs
       IN  \E i, j \in 1 .. Len(d) : i # j /\ RGt(d[i], Zero) /\ RGt(d[j], Zero)
    /\ PositiveDiffsEqual
    /\ SameAsClosed

----------------------------------------------------------------------------
(* The redistribution loop of the iterative rebalancer *)

\* the step that ends a pass of the while loop
PassEnds == pc = "for" /\ pc' = "while"

\* the pass removed an index from indexesRedistribution or brought
\* reimainingToDistribute to >= 0
PassProgresses ==
    \/ Len(indexesRedistribution') < sizeOfPass
    \/ RGe(reimainingToDistribute', Zero)

\* the loop was entered and has exited
LoopExited == pc = "returned" /\ RLt(sumNegativeRebalacings(sumToAddSuddivision, Len(allocTargets)), Zero)

\* what the loop still has to do, as a natural number: the indexes that can
\* still be removed while the deficit lasts, then the statements left in the pass
Variant ==
    LET width == Len(allocTargets) + 2
        open == IF RLt(reimainingToDistribute, Zero) THEN 1 + Len(indexesRedistribution) ELSE 0
    IN  CASE pc = "main" -> (Len(allocTargets) + 3) * width
          [] pc = "while" -> open * width + Len(allocTargets) + 1
          [] pc = "for" -> (1 + sizeOfPass) * width + Len(forQueue)
          [] OTHER -> 0

-----------------------------------------------------------------------------
(* The iterative rebalancer returns a non-negative subdivision of sumToAdd *)

InLoop == pc \in {"while", "for"}

NoEntryNegative == \A i \in 1 .. Len(sumDivided) : RGe(sumDivided[i], Zero)

\* C12: in every state of the redistribution loop every entry of sumDivided is
\* >= 0, and when the allocations add up to 1
\* sum(sumDivided) + reimainingToDistribute = sumToAdd; for valid inputs with
\* sumToAdd > 0 the returned vector has only entries >= 0 and adds up to
\* sumToAdd.
C12_NonNegativeSubdivision ==
    /\ InLoop =>
          /\ NoEntryNegative
          /\ AllocationsValid =>
                RAdd(PlainSum(sumDivided), reimainingToDistribute) = sumToAdd
    /\ (pc = "returned" /\ ValidDeposit) =>
          /\ NoEntryNegative
          /\ PlainSum(sumDivided) = sumToAdd

\* a valid deposit returned by the loop: one asset lost its whole positive
\* subdivision to the redistribution, another one kept a part of its own
C12_Witness ==
    /\ LoopExited
    /\ ValidDeposit
    /\ PlainSum(sumDivided) = sumToAdd
    /\ LET sub == sumToAddSuddivision
       IN  \E i, j \in 1 .. Len(sumDivided) :
              /\ RGt(sub[i], Zero)
              /\ sumDivided[i] = Zero
              /\ RGt(sumDivided[j], Zero)
              /\ RLt(sumDivided[j], sub[j])

-----------------------------------------------------------------------------
(* The closed rebalancer does not overshoot *)

Magnitude(x) == IF RLt(x, Zero) THEN RNeg(x) ELSE x

Between(x, a, b) == (RLe(a, x) /\ RLe(x, b)) \/ (RLe(b, x) /\ RLe(x, a))

\* C13: on valid inputs with sumToAdd # 0 every entry of the closed
\* rebalancer's result is no larger in magnitude than the asset's diff
\* allocTargets[i] * (sumInitial + sumToAdd) - sumsInitial[i], so that
\* sumsInitial[i] + result[i] lies between sumsInitial[i] and
\* allocTargets[i] * (sumInitial + sumToAdd); an asset whose diff is clamped
\* gets 0, and on a withdrawal no sumsInitial[i] + result[i] is negative.
C13_NoOvershoot ==
    (pc = "constrained" /\ ValidInputs /\ sumToAdd # Zero)
        => LET res == sumDividedWithoutNegativeRebalancings
               d == Diffs
               sumFinal == RAdd(PlainSum(sumsInitial), sumToAdd)
           IN  /\ ~res.threw
               /\ \A i \in 1 .. Len(sumsInitial) :
                     LET adjusted == RAdd(sumsInitial[i], res.value[i])
                     IN  /\ RLe(Magnitude(res.value[i]), Magnitude(d[i]))
                         /\ Between(adjusted, sumsInitial[i], RMul(allocTargets[i], sumFinal))
                         /\ Clamp(d[i], sumToAdd) # d[i] => res.value[i] = Zero
                         /\ RLt(sumToAdd, Zero) => RGe(adjusted, Zero)

\* a withdrawal on valid inputs: one asset's diff is clamped and its entry is 0,
\* another asset is sold for less than its diff and stays above its target
C13_Witness ==
    /\ pc = "constrained"
    /\ ValidInputs
    /\ RLt(sumToAdd, Zero)
    /\ ~sumDividedWithoutNegativeRebalancings.threw
    /\ LET res == sumDividedWithoutNegativeRebalancings.value
           d == Diffs
       IN  \E i, j \in 1 .. Len(d) :
              /\ RGt(d[i], Zero)
              /\ res[i] = Zero
              /\ RLt(res[j], Zero)
              /\ RLt(d[j], res[j])
              /\ RGt(RAdd(sumsInitial[j], res[j]), Zero)

====
